---- MODULE Spec2Model ----
(***************************************************************************)
(* Model of client.cpp: the ABX exchange client.  One run of main():       *)
(* connect, request the stream, reassemble 17-byte packets, find the       *)
(* missing sequences, fetch each over its own connection, write the JSON.  *)
(***************************************************************************)
EXTENDS Integers, Sequences, FiniteSets, TLC

(* ---------------------------------------------------------------------- *)
(* Program constants                                                       *)
(* ---------------------------------------------------------------------- *)
PACKET_SIZE == 17
TEMP_BUFFER_SIZE == 1024

(* ---------------------------------------------------------------------- *)
(* Bounds of the model                                                     *)
(* ---------------------------------------------------------------------- *)
\* greatest number of whole packets the server puts on the streaming connection
MaxPackets == 3

(* ---------------------------------------------------------------------- *)
(* Sequence helpers                                                        *)
(* ---------------------------------------------------------------------- *)
Min(a, b) == IF a < b THEN a ELSE b

Last(s) == s[Len(s)]

\* the first n elements of s
Take(s, n) == SubSeq(s, 1, n)

\* s without its first n elements
Drop(s, n) == SubSeq(s, n + 1, Len(s))

RECURSIVE Flatten(_)
Flatten(ss) == IF ss = << >> THEN << >> ELSE Head(ss) \o Flatten(Tail(ss))

\* all sequences over S of length 0..n
RECURSIVE SeqsUpTo(_, _)
SeqsUpTo(S, n) ==
    IF n = 0 THEN {<< >>}
    ELSE LET shorter == SeqsUpTo(S, n - 1)
         IN  shorter \cup {Append(s, x) : s \in {t \in shorter : Len(t) = n - 1}, x \in S}

(* ---------------------------------------------------------------------- *)
(* 32-bit integers and the wire layout                                     *)
(* ---------------------------------------------------------------------- *)
\* static_cast<int32_t>(b) << 24 for a byte b: the int32_t whose top byte is b
\* (two's complement, so a byte >= 0x80 gives a negative value)
ShiftTop(b) == (IF b >= 128 THEN b - 256 ELSE b) * 16777216

\* the four big-endian bytes of the int32_t n, as the server writes them
BE32(n) ==
    << (n \div 16777216) % 256, (n \div 65536) % 256, (n \div 256) % 256, n % 256 >>

\* a 17-byte packet on the wire: symbol[4] | side[1] | quantity[4] | price[4] | sequence[4]
WirePacket(symbol, side, quantity, price, sequence) ==
    symbol \o << side >> \o BE32(quantity) \o BE32(price) \o BE32(sequence)

\* the three integers read least significant byte first
parse_packet_le(raw_data, offset) ==
    LET data(i) == raw_data[offset + i + 1]
        le(i)   == ShiftTop(data(i + 3)) + data(i + 2) * 65536
                       + data(i + 1) * 256 + data(i)
    IN  [ symbol            |-> << data(0), data(1), data(2), data(3) >>,
          buysell_indicator |-> data(4),
          quantity          |-> le(5),
          price             |-> le(9),
          sequence          |-> le(13) ]

\* parse_packet(raw_data, offset): data[i] is raw_data[offset + i], 0-based
parse_packet(raw_data, offset) ==
    LET data(i) == raw_data[offset + i + 1]
        be(i)   == ShiftTop(data(i)) + data(i + 1) * 65536
                       + data(i + 2) * 256 + data(i + 3)
    IN  [ symbol            |-> << data(0), data(1), data(2), data(3) >>,
          buysell_indicator |-> data(4),
          quantity          |-> be(5),
          price             |-> be(9),
          sequence          |-> be(13) ]

(* ---------------------------------------------------------------------- *)
(* std::map<int32_t, Packet> received_packets                              *)
(* ---------------------------------------------------------------------- *)
EmptyMap == << >>

\* received_packets.insert({k, v}): an entry already there is kept
MapPutKeepFirst(m, k, v) == [x \in (DOMAIN m) \cup {k} |-> IF x \in DOMAIN m THEN m[x] ELSE v]

\* received_packets[k] = v
MapPut(m, k, v) == [x \in (DOMAIN m) \cup {k} |-> IF x = k THEN v ELSE m[x]]

\* rbegin()->first: the greatest key of a non-empty map
MaxKey(m) == CHOOSE k \in DOMAIN m : \A j \in DOMAIN m : j <= k

\* the keys in reverse iteration order: rbegin() to rend()
RECURSIVE KeysDescending(_)
KeysDescending(K) ==
    IF K = {} THEN << >>
    ELSE LET hi == CHOOSE k \in K : \A j \in K : j <= k
         IN  << hi >> \o KeysDescending(K \ {hi})

\* the keys in iteration order (ascending)
RECURSIVE KeysAscending(_)
KeysAscending(K) ==
    IF K = {} THEN << >>
    ELSE LET lo == CHOOSE k \in K : \A j \in K : k <= j
         IN  << lo >> \o KeysAscending(K \ {lo})

(* ---------------------------------------------------------------------- *)
(* What the server may send                                                *)
(* ---------------------------------------------------------------------- *)
\* "MSFT", 'B'
SymMSFT == << 77, 83, 70, 84 >>
\* "AB  ", 'S'
SymAB == << 65, 66, 32, 32 >>

\* sequence numbers carried by the packets of the stream
StreamSeqs == {-1, 1, 2, 4}

\* the k-th packet of a stream carrying the sequences seqs: a sequence the
\* stream has carried before comes with another payload
StreamPacket(seqs, k) ==
    IF \E j \in 1..(k - 1) : seqs[j] = seqs[k]
    THEN WirePacket(SymAB, 83, -7, 300, seqs[k])
    ELSE WirePacket(SymMSFT, 66, 50, 100 + seqs[k], seqs[k])

\* every byte string the server may send on the streaming connection; the
\* connection may end after any number of its bytes, in the middle of a packet too
Streams ==
    {Flatten([k \in 1..Len(seqs) |-> StreamPacket(seqs, k)]) :
        seqs \in SeqsUpTo(StreamSeqs, MaxPackets)}

\* sequence numbers the server may answer a resend request for s with: the one
\* asked for, its neighbours, one further on, and the one the request byte names
ResendSeqs(s) == {s, s - 1, s + 1, s + 3, s % 256}

\* the 17-byte answers to a resend request for s
ResendAnswers(s) == {WirePacket(SymAB, 83, 9, 500 + d, d) : d \in ResendSeqs(s)}

(* ---------------------------------------------------------------------- *)
(* State                                                                   *)
(* ---------------------------------------------------------------------- *)
VARIABLES
    pc,                   \* position of main()
    wire,                 \* bytes the server has still to send on the current connection
    delivered,            \* all bytes recv() has returned on the streaming connection
    emitted,              \* packets parsed from the stream, in the order parsed
    receive_buffer,       \* std::vector<char> receive_buffer
    stream_end,           \* what ended the receive loop, "none" before and after stage 3/4
    received_packets,     \* std::map<int32_t, Packet> received_packets
    socks,                \* every socket created so far: state, close() calls, bytes sent
    initial_socket,       \* index into socks, or -1
    resend_socket,        \* index into socks, or -1
    stream_store,         \* received_packets as it was when the streaming phase ended
    max_sequence,
    scan_i,               \* int32_t i of the loop of stage 4, 0 outside the loop
    missing_sequences,    \* std::vector<int32_t> missing_sequences
    idx,                  \* number of elements of missing_sequences the for loop has taken
    seq_to_resend,
    resent_packet_data,   \* std::vector<char> resent_packet_data(PACKET_SIZE)
    total_bytes_received,
    short_read,           \* some recv of this iteration returned fewer bytes than asked for
    sessions,             \* one entry per iteration of the resend loop: seq, outcome, decoded
    last_exit,            \* how the current iteration left its try block, "none" while inside
    store_before,         \* received_packets as it was when the current iteration began
    output,               \* the objects written to output.json, in file order
    exit_status,          \* value returned by main(), -1 while running
    returned_at           \* source line of the return statement taken, 0 while running

vars == << pc, wire, delivered, emitted, receive_buffer, stream_end, received_packets, socks,
           initial_socket, resend_socket, stream_store, max_sequence, scan_i,
           missing_sequences, idx, seq_to_resend, resent_packet_data,
           total_bytes_received, short_read, sessions, last_exit, store_before, output,
           exit_status, returned_at >>

streamVars == << wire, delivered, emitted, receive_buffer, stream_end >>
gapVars    == << stream_store, max_sequence, scan_i, missing_sequences >>
resendVars == << idx, seq_to_resend, resent_packet_data, total_bytes_received, short_read,
                 sessions, last_exit, store_before >>

(* ---------------------------------------------------------------------- *)
(* Sockets                                                                 *)
(* ---------------------------------------------------------------------- *)
\* socket(): a new descriptor
NewSock(ss) == Append(ss, [state |-> "created", closes |-> 0, sent |-> << >>])

\* connect() succeeded on fd
ConnectSock(ss, fd) == [ss EXCEPT ![fd].state = "connected"]

\* send() put the bytes on fd
SendSock(ss, fd, bytes) == [ss EXCEPT ![fd].sent = @ \o bytes]

\* close(fd) left out: the descriptor stays open
CloseSockLeak(ss, fd) == ss

\* close(fd)
CloseSock(ss, fd) == [ss EXCEPT ![fd].state = "closed", ![fd].closes = @ + 1]

\* descriptors that are open
OpenSocks == {i \in DOMAIN socks : socks[i].state # "closed"}

\* return <status>; at source line <line>
Return(status, line) ==
    /\ pc' = "returned"
    /\ exit_status' = status
    /\ returned_at' = line

Init ==
    /\ pc = "socket"
    /\ wire \in Streams
    /\ delivered = << >>
    /\ emitted = << >>
    /\ receive_buffer = << >>
    /\ stream_end = "none"
    /\ received_packets = EmptyMap
    /\ socks = << >>
    /\ initial_socket = -1
    /\ resend_socket = -1
    /\ stream_store = EmptyMap
    /\ max_sequence = 0
    /\ scan_i = 0
    /\ missing_sequences = << >>
    /\ idx = 0
    /\ seq_to_resend = 0
    /\ resent_packet_data = << >>
    /\ total_bytes_received = 0
    /\ short_read = FALSE
    /\ sessions = << >>
    /\ last_exit = "none"
    /\ store_before = EmptyMap
    /\ output = << >>
    /\ exit_status = -1
    /\ returned_at = 0

(* ---------------------------------------------------------------------- *)
(* Stage 1 and 2: connect and ask for the whole stream                     *)
(* ---------------------------------------------------------------------- *)
\* initial_socket = socket(...); -1 returns 1
InitialSocket ==
    /\ pc = "socket"
    /\ \/ /\ socks' = NewSock(socks)
          /\ initial_socket' = Len(socks) + 1
          /\ pc' = "connect"
          /\ UNCHANGED << exit_status, returned_at >>
       \/ /\ Return(1, 98)
          /\ UNCHANGED << socks, initial_socket >>
    /\ UNCHANGED << streamVars, received_packets, resend_socket, gapVars, resendVars,
                    output >>

\* connect failure returning 1 without close(initial_socket)
InitialConnectLeaks ==
    /\ pc = "connect"
    /\ \/ /\ socks' = ConnectSock(socks, initial_socket)
          /\ pc' = "send"
          /\ UNCHANGED << exit_status, returned_at >>
       \/ /\ socks' = socks
          /\ Return(1, 132)
    /\ UNCHANGED << streamVars, received_packets, initial_socket, resend_socket,
                    gapVars, resendVars, output >>

\* connect(initial_socket, ...); failure closes the socket and returns 1
InitialConnect ==
    /\ pc = "connect"
    /\ \/ /\ socks' = ConnectSock(socks, initial_socket)
          /\ pc' = "send"
          /\ UNCHANGED << exit_status, returned_at >>
       \/ /\ socks' = CloseSock(socks, initial_socket)
          /\ Return(1, 132)
    /\ UNCHANGED << streamVars, received_packets, initial_socket, resend_socket,
                    gapVars, resendVars, output >>

\* send(initial_socket, &request_payload, 1, 0) with request_payload = 1
InitialSend ==
    /\ pc = "send"
    /\ \E bytes_sent \in {-1, 0, 1} :
          IF bytes_sent = -1
          THEN /\ socks' = CloseSock(socks, initial_socket)
               /\ Return(1, 143)
          ELSE IF bytes_sent = 0
          THEN /\ socks' = CloseSock(socks, initial_socket)
               /\ Return(1, 147)
          ELSE /\ socks' = SendSock(socks, initial_socket, << 1 >>)
               /\ pc' = "s_recv"
               /\ UNCHANGED << exit_status, returned_at >>
    /\ UNCHANGED << streamVars, received_packets, initial_socket, resend_socket,
                    gapVars, resendVars, output >>

(* ---------------------------------------------------------------------- *)
(* Stage 3: receive and reassemble the stream                              *)
(* ---------------------------------------------------------------------- *)
\* erase of one byte too few
EraseFrontShort(buf) == Drop(buf, PACKET_SIZE - 1)

\* receive_buffer.erase(begin, begin + PACKET_SIZE)
EraseFront(buf) == Drop(buf, PACKET_SIZE)

\* the loop written with size() > PACKET_SIZE
RECURSIVE DrainBufferStrict(_, _, _)
DrainBufferStrict(buf, store, em) ==
    IF Len(buf) > PACKET_SIZE
    THEN LET packet == parse_packet(buf, 0)
         IN  DrainBufferStrict(EraseFront(buf),
                               MapPut(store, packet.sequence, packet),
                               Append(em, packet))
    ELSE [buf |-> buf, store |-> store, em |-> em]

\* while (receive_buffer.size() >= PACKET_SIZE) { parse, store, erase }
RECURSIVE DrainBuffer(_, _, _)
DrainBuffer(buf, store, em) ==
    IF Len(buf) >= PACKET_SIZE
    THEN LET packet == parse_packet(buf, 0)
         IN  DrainBuffer(EraseFront(buf),
                         MapPut(store, packet.sequence, packet),
                         Append(em, packet))
    ELSE [buf |-> buf, store |-> store, em |-> em]

\* recv() returned bytes_read > 0 bytes: append them and take every whole packet
StreamRecvData ==
    /\ pc = "s_recv"
    /\ \E bytes_read \in 1..Min(Len(wire), TEMP_BUFFER_SIZE) :
          LET chunk == Take(wire, bytes_read)
              r     == DrainBuffer(receive_buffer \o chunk, received_packets, emitted)
          IN  /\ wire' = Drop(wire, bytes_read)
              /\ delivered' = delivered \o chunk
              /\ receive_buffer' = r.buf
              /\ received_packets' = r.store
              /\ emitted' = r.em
    /\ UNCHANGED << pc, stream_end, socks, initial_socket, resend_socket, gapVars,
                    resendVars, output, exit_status, returned_at >>

\* break out of the receive loop; close(initial_socket); initial_socket = -1
CloseInitial ==
    /\ socks' = CloseSock(socks, initial_socket)
    /\ initial_socket' = -1
    /\ stream_store' = received_packets
    /\ wire' = << >>
    /\ pc' = "gap"
    /\ UNCHANGED << delivered, emitted, receive_buffer, received_packets, resend_socket,
                    max_sequence, scan_i, missing_sequences, resendVars, output, exit_status,
                    returned_at >>

\* recv() returned 0: the server closed the connection
StreamRecvClosed ==
    /\ pc = "s_recv"
    /\ stream_end' = "closed"
    /\ CloseInitial

\* the receive timeout taken for a fatal error: close and return 1
StreamTimeoutFatal ==
    /\ pc = "s_recv"
    /\ stream_end' = "timeout"
    /\ socks' = CloseSock(socks, initial_socket)
    /\ Return(1, 200)
    /\ UNCHANGED << wire, delivered, emitted, receive_buffer, received_packets,
                    initial_socket, resend_socket, gapVars, resendVars, output >>

\* recv() returned -1 with errno EAGAIN or EWOULDBLOCK: the receive timeout
StreamRecvTimeout ==
    /\ pc = "s_recv"
    /\ stream_end' = "timeout"
    /\ CloseInitial

\* recv() returned -1 with another errno
StreamRecvError ==
    /\ pc = "s_recv"
    /\ stream_end' = "error"
    /\ CloseInitial

\* receive_buffer.insert throws (std::bad_alloc): the outer handler closes the
\* initial socket and returns 1
StreamException ==
    /\ pc = "s_recv"
    /\ wire # << >>
    /\ socks' = IF initial_socket # -1 THEN CloseSock(socks, initial_socket) ELSE socks
    /\ Return(1, 448)
    /\ UNCHANGED << streamVars, received_packets, initial_socket, resend_socket,
                    gapVars, resendVars, output >>

(* ---------------------------------------------------------------------- *)
(* Stage 4: find the missing sequences                                     *)
(* ---------------------------------------------------------------------- *)
\* max_sequence initialised to 1 instead of 0
MaxSequenceDefaultOne(store) == IF DOMAIN store # {} THEN MaxKey(store) ELSE 1

\* received_packets.size() taken for the greatest key
MaxSequenceBySize(store) == Cardinality(DOMAIN store)

\* int32_t max_sequence = 0; if (!empty) max_sequence = rbegin()->first
MaxSequence(store) == IF DOMAIN store # {} THEN MaxKey(store) ELSE 0

\* the scan with the test inverted: find(i) != end()
RECURSIVE ScanPresent(_, _, _, _)
ScanPresent(i, max, store, missing) ==
    IF i <= max
    THEN ScanPresent(i + 1, max, store,
                     IF i \in DOMAIN store THEN Append(missing, i) ELSE missing)
    ELSE missing

\* the scan inserting at the front of the vector instead of push_back
RECURSIVE ScanMissingFront(_, _, _, _)
ScanMissingFront(i, max, store, missing) ==
    IF i <= max
    THEN ScanMissingFront(i + 1, max, store,
                          IF i \notin DOMAIN store THEN << i >> \o missing ELSE missing)
    ELSE missing

\* for (i = from; i <= max; ++i) if (find(i) == end()) missing.push_back(i)
RECURSIVE ScanMissing(_, _, _, _)
ScanMissing(i, max, store, missing) ==
    IF i <= max
    THEN ScanMissing(i + 1, max, store,
                     IF i \notin DOMAIN store THEN Append(missing, i) ELSE missing)
    ELSE missing

\* the scan started at 0 instead of 1
MissingFromZero(store) == ScanMissing(0, MaxSequence(store), store, << >>)

\* the whole of stage 4
MissingSequences(store) == ScanMissing(1, MaxSequence(store), store, << >>)

\* receive_buffer is not read again after the receive loop, and the record of
\* the streaming connection (delivered, emitted, stream_end) ends with it: all
\* four are reset here
GapAnalysis ==
    /\ pc = "gap"
    /\ max_sequence' = MaxSequence(received_packets)
    /\ missing_sequences' = MissingSequences(received_packets)
    /\ delivered' = << >>
    /\ emitted' = << >>
    /\ receive_buffer' = << >>
    /\ stream_end' = "none"
    /\ pc' = "r_loop"
    /\ UNCHANGED << wire, received_packets, socks, initial_socket, resend_socket,
                    stream_store, scan_i, resendVars, output, exit_status, returned_at >>

\* missing_sequences.push_back throws: the outer handler returns 1
GapException ==
    /\ pc = "gap"
    /\ MissingSequences(received_packets) # << >>
    /\ Return(1, 448)
    /\ UNCHANGED << streamVars, received_packets, socks, initial_socket, resend_socket,
                    gapVars, resendVars, output >>

(* ---------------------------------------------------------------------- *)
(* Stage 5: one connection per missing sequence                            *)
(* ---------------------------------------------------------------------- *)
\* the entry of the iteration under way
SetOutcome(log, o, d) == [log EXCEPT ![Len(log)].outcome = o, ![Len(log)].decoded = d]

\* `continue` replaced by falling out of the try block to the cleanup
ContinueFallsThrough == "r_cleanup"

\* `continue` replaced by `break`
ContinueBreaks == "output"

\* where a `continue` inside the try block goes: the loop header
ContinueTarget == "r_loop"

\* the test written as total_bytes_received <= PACKET_SIZE
GotAnyPacket(total) == total <= PACKET_SIZE

\* if (total_bytes_received == PACKET_SIZE): the packet is complete
GotWholePacket(total) == total = PACKET_SIZE

\* the loop passing over an element that has come into the store meanwhile
ResendLoopSkipsPresent ==
    /\ pc = "r_loop"
    /\ IF idx < Len(missing_sequences)
       THEN IF missing_sequences[idx + 1] \in DOMAIN received_packets
            THEN /\ idx' = idx + 1
                 /\ UNCHANGED << pc, seq_to_resend, resend_socket, sessions, last_exit,
                                 store_before >>
            ELSE /\ idx' = idx + 1
                 /\ seq_to_resend' = missing_sequences[idx + 1]
                 /\ resend_socket' = -1
                 /\ sessions' = Append(sessions, [seq     |-> missing_sequences[idx + 1],
                                                  outcome |-> "running",
                                                  decoded |-> 0])
                 /\ last_exit' = "none"
                 /\ store_before' = received_packets
                 /\ pc' = "r_socket"
       ELSE /\ pc' = "output"
            /\ UNCHANGED << idx, seq_to_resend, resend_socket, sessions, last_exit,
                            store_before >>
    /\ UNCHANGED << streamVars, received_packets, socks, initial_socket, gapVars,
                    resent_packet_data, total_bytes_received, short_read, output,
                    exit_status, returned_at >>

\* for (int32_t seq_to_resend : missing_sequences): take the next element or leave
ResendLoop ==
    /\ pc = "r_loop"
    /\ IF idx < Len(missing_sequences)
       THEN /\ idx' = idx + 1
            /\ seq_to_resend' = missing_sequences[idx + 1]
            /\ resend_socket' = -1
            /\ sessions' = Append(sessions, [seq     |-> missing_sequences[idx + 1],
                                             outcome |-> "running",
                                             decoded |-> 0])
            /\ last_exit' = "none"
            /\ store_before' = received_packets
            /\ pc' = "r_socket"
       ELSE /\ pc' = "output"
            /\ UNCHANGED << idx, seq_to_resend, resend_socket, sessions, last_exit,
                            store_before >>
    /\ UNCHANGED << streamVars, received_packets, socks, initial_socket, gapVars,
                    resent_packet_data, total_bytes_received, short_read, output, exit_status,
                    returned_at >>

\* resend_socket = socket(...); -1 continues with the next sequence
ResendSocket ==
    /\ pc = "r_socket"
    /\ \/ /\ socks' = NewSock(socks)
          /\ resend_socket' = Len(socks) + 1
          /\ pc' = "r_connect"
          /\ UNCHANGED << sessions, last_exit >>
       \/ /\ sessions' = SetOutcome(sessions, "abandoned", 0)
          /\ last_exit' = "socket"
          /\ pc' = ContinueTarget
          /\ UNCHANGED << socks, resend_socket >>
    /\ UNCHANGED << streamVars, received_packets, initial_socket, gapVars, idx,
                    seq_to_resend, resent_packet_data, total_bytes_received, short_read,
                    store_before, output, exit_status, returned_at >>

\* bytes the server sends on a resend connection after the packet
ResendTrailer == << 255, 255 >>

\* connect(resend_socket, ...); failure closes the socket and continues
ResendConnect ==
    /\ pc = "r_connect"
    /\ \/ /\ socks' = ConnectSock(socks, resend_socket)
          /\ wire' \in {answer \o ResendTrailer : answer \in ResendAnswers(seq_to_resend)}
          /\ pc' = "r_send"
          /\ UNCHANGED << sessions, last_exit >>
       \/ /\ socks' = CloseSock(socks, resend_socket)
          /\ sessions' = SetOutcome(sessions, "abandoned", 0)
          /\ last_exit' = "connect"
          /\ pc' = ContinueTarget
          /\ UNCHANGED wire
    /\ UNCHANGED << delivered, emitted, receive_buffer, stream_end, received_packets,
                    initial_socket, resend_socket, gapVars, idx, seq_to_resend,
                    resent_packet_data, total_bytes_received, short_read, store_before, output,
                    exit_status, returned_at >>

\* the sequence clamped to 255 instead of converted to unsigned char
ResendPayloadClamped(seq) == << 2, Min(seq, 255) >>

\* unsigned char resend_payload[2] = {2, static_cast<unsigned char>(seq_to_resend)}
ResendPayload(seq) == << 2, seq % 256 >>

\* send(resend_socket, resend_payload, 2, 0): only a full send goes on
ResendSend ==
    /\ pc = "r_send"
    /\ \E bytes_sent_resend \in {-1, 0, 1, 2} :
          IF bytes_sent_resend = -1
          THEN /\ socks' = CloseSock(socks, resend_socket)
               /\ sessions' = SetOutcome(sessions, "abandoned", 0)
               /\ last_exit' = "send"
               /\ pc' = ContinueTarget
          ELSE IF bytes_sent_resend = 2
          THEN /\ socks' = SendSock(socks, resend_socket, ResendPayload(seq_to_resend))
               /\ pc' = "r_alloc"
               /\ UNCHANGED << sessions, last_exit >>
          ELSE /\ socks' = CloseSock(
                              SendSock(socks, resend_socket,
                                       Take(ResendPayload(seq_to_resend), bytes_sent_resend)),
                              resend_socket)
               /\ sessions' = SetOutcome(sessions, "abandoned", 0)
               /\ last_exit' = "send"
               /\ pc' = ContinueTarget
    /\ UNCHANGED << streamVars, received_packets, initial_socket, resend_socket,
                    gapVars, idx, seq_to_resend, resent_packet_data,
                    total_bytes_received, short_read, store_before, output, exit_status,
                    returned_at >>

\* std::vector<char> resent_packet_data(PACKET_SIZE); size_t total_bytes_received = 0
\* or the allocation throws and the inner handler catches
ResendAlloc ==
    /\ pc = "r_alloc"
    /\ \/ /\ resent_packet_data' = [i \in 1..PACKET_SIZE |-> 0]
          /\ total_bytes_received' = 0
          /\ short_read' = FALSE
          /\ pc' = "r_recv"
          /\ UNCHANGED << sessions, last_exit >>
       \/ /\ sessions' = SetOutcome(sessions, "abandoned", 0)
          /\ last_exit' = "exception"
          /\ pc' = "r_cleanup"
          /\ UNCHANGED << resent_packet_data, total_bytes_received, short_read >>
    /\ UNCHANGED << streamVars, received_packets, socks, initial_socket, resend_socket,
                    gapVars, idx, seq_to_resend, store_before, output, exit_status,
                    returned_at >>

\* recv() writing the bytes at the start of the buffer: data() without + total
RecvIntoStart(buf, offset, bytes) ==
    [i \in 1..Len(buf) |-> IF i <= Len(bytes) THEN bytes[i] ELSE buf[i]]

\* recv(fd, data() + offset, ...) wrote the bytes into buf from index offset on
RecvInto(buf, offset, bytes) ==
    [i \in 1..Len(buf) |->
        IF i > offset /\ i <= offset + Len(bytes) THEN bytes[i - offset] ELSE buf[i]]

\* every recv asking for a whole packet
ResendAskWhole(total) == PACKET_SIZE

\* the length recv is asked for: PACKET_SIZE - total_bytes_received
ResendAsk(total) == PACKET_SIZE - total

\* recv(resend_socket, data + total, PACKET_SIZE - total, 0) returned n > 0 bytes
ResendRecvData ==
    /\ pc = "r_recv"
    /\ total_bytes_received < PACKET_SIZE
    /\ \E current_bytes_read \in 1..Min(Len(wire), ResendAsk(total_bytes_received)) :
          /\ resent_packet_data' = RecvInto(resent_packet_data, total_bytes_received,
                                            Take(wire, current_bytes_read))
          /\ wire' = Drop(wire, current_bytes_read)
          /\ total_bytes_received' = total_bytes_received + current_bytes_read
          /\ short_read' = (short_read \/
                            current_bytes_read < PACKET_SIZE - total_bytes_received)
          /\ pc' = IF total_bytes_received + current_bytes_read < PACKET_SIZE
                   THEN "r_recv" ELSE "r_check"
    /\ UNCHANGED << delivered, emitted, receive_buffer, stream_end, received_packets,
                    socks, initial_socket, resend_socket, gapVars, idx, seq_to_resend,
                    sessions, last_exit, store_before, output, exit_status,
                    returned_at >>

\* a failed recv that does not leave the loop: nothing more arrives and recv
\* is called again
ResendRecvFailRetries ==
    /\ pc = "r_recv"
    /\ total_bytes_received < PACKET_SIZE
    /\ wire' = << >>
    /\ UNCHANGED << pc, delivered, emitted, receive_buffer, stream_end, received_packets,
                    socks, initial_socket, resend_socket, gapVars, resendVars, output,
                    exit_status, returned_at >>

\* a failed recv on a resend connection ending the run: close and return 1
ResendRecvFailFatal ==
    /\ pc = "r_recv"
    /\ total_bytes_received < PACKET_SIZE
    /\ last_exit' = "recv"
    /\ sessions' = SetOutcome(sessions, "abandoned", 0)
    /\ socks' = CloseSock(socks, resend_socket)
    /\ Return(1, 333)
    /\ UNCHANGED << streamVars, received_packets, initial_socket, resend_socket, gapVars,
                    idx, seq_to_resend, resent_packet_data, total_bytes_received, short_read,
                    store_before, output >>

\* total_bytes_received = 0; break: the packet is given up
ResendRecvFail ==
    /\ pc = "r_recv"
    /\ total_bytes_received < PACKET_SIZE
    /\ last_exit' = "recv"
    /\ sessions' = SetOutcome(sessions, "abandoned", 0)
    /\ total_bytes_received' = 0
    /\ short_read' = FALSE
    /\ pc' = "r_check"
    /\ UNCHANGED << streamVars, received_packets, socks, initial_socket, resend_socket,
                    gapVars, idx, seq_to_resend, resent_packet_data, store_before,
                    output, exit_status, returned_at >>

\* recv() returned -1 with errno EAGAIN or EWOULDBLOCK: the receive timeout
ResendRecvTimeout == ResendRecvFail

\* recv() returned -1 with another errno
ResendRecvError == ResendRecvFail

\* recv() returned 0: the server closed the connection before 17 bytes were there
ResendRecvClosed == ResendRecvFail

\* the packet filed under the sequence that was asked for
ResendKeyRequested(resent_packet, seq) == seq

\* received_packets[resent_packet.sequence] = resent_packet: the key stored under
ResendKey(resent_packet, seq) == resent_packet.sequence

\* if (total_bytes_received == PACKET_SIZE) { parse; received_packets[sequence] = packet }
\* or the map insertion throws and the inner handler catches.  An iteration whose
\* recv() failed stays abandoned in `sessions` whatever this step does.
ResendStore ==
    /\ pc = "r_check"
    /\ IF GotWholePacket(total_bytes_received)
       THEN LET resent_packet == parse_packet(resent_packet_data, 0)
                key           == ResendKey(resent_packet, seq_to_resend)
                running       == Last(sessions).outcome = "running"
            IN  \/ /\ received_packets' = MapPut(received_packets, key, resent_packet)
                   /\ sessions' = IF running
                                  THEN SetOutcome(sessions, "complete",
                                                  resent_packet.sequence)
                                  ELSE sessions
                   /\ last_exit' = IF running THEN "stored" ELSE last_exit
                \/ /\ key \notin DOMAIN received_packets
                   /\ sessions' = SetOutcome(sessions, "abandoned", 0)
                   /\ last_exit' = "exception"
                   /\ UNCHANGED received_packets
       ELSE UNCHANGED << received_packets, sessions, last_exit >>
    /\ pc' = "r_cleanup"
    /\ UNCHANGED << streamVars, socks, initial_socket, resend_socket, gapVars, idx,
                    seq_to_resend, resent_packet_data, total_bytes_received, short_read,
                    store_before, output, exit_status, returned_at >>

\* if (resend_socket != -1) { close(resend_socket); resend_socket = -1; }
\* resent_packet_data and total_bytes_received went out of scope with the try block
ResendCleanup ==
    /\ pc = "r_cleanup"
    /\ IF resend_socket # -1
       THEN /\ socks' = CloseSock(socks, resend_socket)
            /\ resend_socket' = -1
       ELSE UNCHANGED << socks, resend_socket >>
    /\ wire' = << >>
    /\ resent_packet_data' = << >>
    /\ total_bytes_received' = 0
    /\ short_read' = FALSE
    /\ pc' = "r_loop"
    /\ UNCHANGED << delivered, emitted, receive_buffer, stream_end, received_packets,
                    initial_socket, gapVars, idx, seq_to_resend, sessions, last_exit,
                    store_before, output, exit_status, returned_at >>

(* ---------------------------------------------------------------------- *)
(* Stage 6: build and write the JSON                                       *)
(* ---------------------------------------------------------------------- *)
\* find_last_not_of(" \0"): the argument is a C string, so its length is 1 and
\* only the space takes part
TrimChars == {32}

\* symbol_str up to its last character not in TrimChars, empty if there is none
RECURSIVE TrimSymbol(_)
TrimSymbol(sym) ==
    IF sym = << >> THEN << >>
    ELSE IF Last(sym) \in TrimChars THEN TrimSymbol(Take(sym, Len(sym) - 1))
    ELSE sym

\* one object of the array
JsonObject(packet) ==
    [ symbol            |-> TrimSymbol(packet.symbol),
      buysell_indicator |-> packet.buysell_indicator,
      quantity          |-> packet.quantity,
      price             |-> packet.price,
      packetSequence    |-> packet.sequence ]

\* for (const auto& pair : received_packets): the objects in key order
JsonArray(store) ==
    LET keys == KeysAscending(DOMAIN store)
    IN  [i \in 1..Len(keys) |-> JsonObject(store[keys[i]])]

\* output.json opened and written: return 0
WriteOutput ==
    /\ pc = "output"
    /\ output' = JsonArray(received_packets)
    /\ Return(0, 452)
    /\ UNCHANGED << streamVars, received_packets, socks, initial_socket, resend_socket,
                    gapVars, resendVars >>

\* output.json could not be opened: return 1
OutputOpenFails ==
    /\ pc = "output"
    /\ Return(1, 438)
    /\ UNCHANGED << streamVars, received_packets, socks, initial_socket, resend_socket,
                    gapVars, resendVars, output >>

\* building json_output_string throws: the outer handler returns 1
OutputException ==
    /\ pc = "output"
    /\ socks' = IF initial_socket # -1 THEN CloseSock(socks, initial_socket) ELSE socks
    /\ Return(1, 448)
    /\ UNCHANGED << streamVars, received_packets, initial_socket, resend_socket,
                    gapVars, resendVars, output >>

(* ---------------------------------------------------------------------- *)
(* The program                                                             *)
(* ---------------------------------------------------------------------- *)
Next ==
    \/ InitialSocket
    \/ InitialConnect
    \/ InitialSend
    \/ StreamRecvData
    \/ StreamRecvClosed
    \/ StreamRecvTimeout
    \/ StreamRecvError
    \/ StreamException
    \/ GapAnalysis
    \/ GapException
    \/ ResendLoop
    \/ ResendSocket
    \/ ResendConnect
    \/ ResendSend
    \/ ResendAlloc
    \/ ResendRecvData
    \/ ResendRecvTimeout
    \/ ResendRecvError
    \/ ResendRecvClosed
    \/ ResendStore
    \/ ResendCleanup
    \/ WriteOutput
    \/ OutputOpenFails
    \/ OutputException

Spec == Init /\ [][Next]_vars

\* the number of packets of the streams the fair runs start with
FairPackets == 1

\* the initial states whose stream has at most FairPackets packets
InitFair == Init /\ Len(wire) <= PACKET_SIZE * FairPackets

\* main() runs on its own thread and every call it makes returns: as long as
\* a step is possible, one is taken
SpecFair == InitFair /\ [][Next]_vars /\ WF_vars(Next)

(* ---------------------------------------------------------------------- *)
(* The resend loop around sequence 255                                     *)
(* ---------------------------------------------------------------------- *)
\* the greatest sequence the stream delivered, and the number of resend
\* iterations still to run
WideMax == 257
WideLeft == 2

\* main() at the header of the resend loop after the stream delivered the one
\* packet WideMax and socket() failed in each of the first WideMax - 1 -
\* WideLeft iterations: the iterations left are those for 255 and 256.
\* missing_sequences is what the scan of 1..WideMax gives for that store.
InitWide ==
    LET store   == MapPut(EmptyMap, WideMax,
                          parse_packet(WirePacket(SymMSFT, 66, 50, 100 + WideMax, WideMax), 0))
        done    == WideMax - 1 - WideLeft
    IN  /\ pc = "r_loop"
        /\ wire = << >>
        /\ delivered = << >>
        /\ emitted = << >>
        /\ receive_buffer = << >>
        /\ stream_end = "none"
        /\ received_packets = store
        /\ socks = << [state |-> "closed", closes |-> 1, sent |-> << 1 >>] >>
        /\ initial_socket = -1
        /\ resend_socket = -1
        /\ stream_store = store
        /\ max_sequence = MaxSequence(store)
        /\ scan_i = 0
        /\ missing_sequences = [i \in 1..(WideMax - 1) |-> i]
        /\ idx = done
        /\ seq_to_resend = done
        /\ resent_packet_data = << >>
        /\ total_bytes_received = 0
        /\ short_read = FALSE
        /\ sessions = [i \in 1..done |-> [seq |-> i, outcome |-> "abandoned", decoded |-> 0]]
        /\ last_exit = "socket"
        /\ store_before = store
        /\ output = << >>
        /\ exit_status = -1
        /\ returned_at = 0

\* the steps of main() from the resend loop on
NextWide ==
    \/ ResendLoop
    \/ ResendSocket
    \/ ResendConnect
    \/ ResendSend
    \/ ResendAlloc
    \/ ResendRecvData
    \/ ResendRecvTimeout
    \/ ResendRecvError
    \/ ResendRecvClosed
    \/ ResendStore
    \/ ResendCleanup
    \/ WriteOutput
    \/ OutputOpenFails
    \/ OutputException

SpecWide == InitWide /\ [][NextWide]_vars

(* ---------------------------------------------------------------------- *)
(* parse_packet on arbitrary windows                                       *)
(* ---------------------------------------------------------------------- *)
\* byte values at the edges of the signed and the unsigned range
ByteVals == {0, 127, 128, 255}

\* the four-byte fields over ByteVals
FieldVals == {<< a, b, c, d >> : a \in ByteVals, b \in ByteVals, c \in ByteVals, d \in ByteVals}

\* 17-byte windows a server may answer with: one of the three integer fields,
\* or the symbol and the side, ranges over the edge bytes, the rest is fixed
Windows ==
    LET sym == SymAB
        f   == << 0, 0, 1, 44 >>
    IN  {sym \o << 83 >> \o q \o f \o f : q \in FieldVals}
        \cup {sym \o << 83 >> \o f \o q \o f : q \in FieldVals}
        \cup {sym \o << 83 >> \o f \o f \o q : q \in FieldVals}
        \cup {<< a, 66, b, 32 >> \o << c >> \o f \o f \o f :
                 a \in ByteVals, b \in ByteVals, c \in ByteVals}

\* main() in the resend iteration for sequence 1, after the stream delivered
\* the packet 2 and the 17 bytes of the answer have been read: the answer is
\* any of Windows
InitDecode ==
    LET store == MapPut(EmptyMap, 2, parse_packet(WirePacket(SymMSFT, 66, 50, 102, 2), 0))
    IN  /\ pc = "r_check"
        /\ wire = ResendTrailer
        /\ delivered = << >>
        /\ emitted = << >>
        /\ receive_buffer = << >>
        /\ stream_end = "none"
        /\ received_packets = store
        /\ socks = << [state |-> "closed", closes |-> 1, sent |-> << 1 >>],
                      [state |-> "connected", closes |-> 0, sent |-> ResendPayload(1)] >>
        /\ initial_socket = -1
        /\ resend_socket = 2
        /\ stream_store = store
        /\ max_sequence = MaxSequence(store)
        /\ scan_i = 0
        /\ missing_sequences = MissingSequences(store)
        /\ idx = 1
        /\ seq_to_resend = 1
        /\ resent_packet_data \in Windows
        /\ total_bytes_received = PACKET_SIZE
        /\ short_read = FALSE
        /\ sessions = << [seq |-> 1, outcome |-> "running", decoded |-> 0] >>
        /\ last_exit = "none"
        /\ store_before = store
        /\ output = << >>
        /\ exit_status = -1
        /\ returned_at = 0

\* the steps of main() from the test of total_bytes_received on
NextDecode ==
    \/ ResendStore
    \/ ResendCleanup
    \/ ResendLoop
    \/ WriteOutput
    \/ OutputOpenFails
    \/ OutputException

SpecDecode == InitDecode /\ [][NextDecode]_vars

(* ---------------------------------------------------------------------- *)
(* The loop of stage 4, one iteration at a time                            *)
(* ---------------------------------------------------------------------- *)
\* the loop is run with a signed integer type of ScanBits bits in the place of
\* int32_t, so that its greatest value can be reached by counting from 1
ScanBits == 4
ScanIntMax == 2 ^ (ScanBits - 1) - 1
ScanIntMin == -(2 ^ (ScanBits - 1))

\* the number of elements missing_sequences can take before push_back throws
ScanCap == 2 ^ ScanBits

\* the stores the receive loop may have ended with: at most two packets, with
\* sequences from 1 up to the greatest value of the type
ScanStores ==
    LET rec(k) == parse_packet(WirePacket(SymMSFT, 66, 50, 100 + k, k), 0)
    IN  {[k \in K |-> rec(k)] :
            K \in {J \in SUBSET (1..ScanIntMax) : Cardinality(J) <= 2}}

\* main() after the receive loop: the server sent the packets of the store in
\* ascending order and closed
InitScan ==
    \E store \in ScanStores :
       LET keys == KeysAscending(DOMAIN store)
       IN  /\ pc = "gap"
           /\ wire = << >>
           /\ delivered = Flatten([i \in 1..Len(keys) |->
                              WirePacket(SymMSFT, 66, 50, 100 + keys[i], keys[i])])
           /\ emitted = [i \in 1..Len(keys) |-> store[keys[i]]]
           /\ receive_buffer = << >>
           /\ stream_end = "closed"
           /\ received_packets = store
           /\ socks = << [state |-> "closed", closes |-> 1, sent |-> << 1 >>] >>
           /\ initial_socket = -1
           /\ resend_socket = -1
           /\ stream_store = store
           /\ max_sequence = 0
           /\ scan_i = 0
           /\ missing_sequences = << >>
           /\ idx = 0
           /\ seq_to_resend = 0
           /\ resent_packet_data = << >>
           /\ total_bytes_received = 0
           /\ short_read = FALSE
           /\ sessions = << >>
           /\ last_exit = "none"
           /\ store_before = EmptyMap
           /\ output = << >>
           /\ exit_status = -1
           /\ returned_at = 0

\* max_sequence = 0 or rbegin()->first; missing_sequences declared; i = 1
ScanBegin ==
    /\ pc = "gap"
    /\ max_sequence' = MaxSequence(received_packets)
    /\ missing_sequences' = << >>
    /\ scan_i' = 1
    /\ delivered' = << >>
    /\ emitted' = << >>
    /\ receive_buffer' = << >>
    /\ stream_end' = "none"
    /\ pc' = "scan"
    /\ UNCHANGED << wire, received_packets, socks, initial_socket, resend_socket,
                    stream_store, resendVars, output, exit_status, returned_at >>

\* i <= max_sequence: the body, then ++i.  ++i at the greatest value of the
\* type is a signed overflow, which is undefined: the counter wraps to the
\* least value and the loop goes on, or the loop is left as if the counter had
\* passed max_sequence.
ScanStep ==
    /\ pc = "scan"
    /\ scan_i <= max_sequence
    /\ IF scan_i \notin DOMAIN received_packets
       THEN /\ Len(missing_sequences) < ScanCap
            /\ missing_sequences' = Append(missing_sequences, scan_i)
       ELSE UNCHANGED missing_sequences
    /\ IF scan_i < ScanIntMax
       THEN /\ scan_i' = scan_i + 1
            /\ UNCHANGED pc
       ELSE \/ /\ scan_i' = ScanIntMin
               /\ UNCHANGED pc
            \/ /\ scan_i' = 0
               /\ pc' = "r_loop"
    /\ UNCHANGED << streamVars, received_packets, socks, initial_socket, resend_socket,
                    stream_store, max_sequence, resendVars, output, exit_status,
                    returned_at >>

\* i <= max_sequence is false: the loop is left
ScanEnd ==
    /\ pc = "scan"
    /\ scan_i > max_sequence
    /\ scan_i' = 0
    /\ pc' = "r_loop"
    /\ UNCHANGED << streamVars, received_packets, socks, initial_socket, resend_socket,
                    stream_store, max_sequence, missing_sequences, resendVars, output,
                    exit_status, returned_at >>

\* missing_sequences.push_back throws: the outer handler returns 1
ScanException ==
    /\ pc = "scan"
    /\ scan_i <= max_sequence
    /\ scan_i \notin DOMAIN received_packets
    /\ Return(1, 448)
    /\ UNCHANGED << streamVars, received_packets, socks, initial_socket, resend_socket,
                    gapVars, resendVars, output >>

\* the steps of stage 4
NextScan ==
    \/ ScanBegin
    \/ ScanStep
    \/ ScanEnd
    \/ ScanException

SpecScan == InitScan /\ [][NextScan]_vars

(* ---------------------------------------------------------------------- *)
(* Positions of main() used by the properties                              *)
(* ---------------------------------------------------------------------- *)
\* inside the receive loop of stage 3, or just after it
StreamPhase == pc \in {"s_recv", "gap"}

\* inside the try block of one resend iteration, the socket created
InSession == pc \in {"r_connect", "r_send", "r_alloc", "r_recv", "r_check", "r_cleanup"}

\* output.json has been written and main() returned 0
OutputWritten == pc = "returned" /\ returned_at = 452

\* the resend loop is over and the output stage was reached
RecoveryOver == pc = "output" \/ (pc = "returned" /\ returned_at \in {438, 452})

\* stage 4 has run
GapDone == pc \in {"r_loop", "r_socket"} \/ InSession \/ RecoveryOver

\* the greatest element of a non-empty set of integers, 0 for the empty set
GreatestOrZero(K) == IF K = {} THEN 0 ELSE CHOOSE k \in K : \A j \in K : j <= k

\* the sequences requested so far, in the order requested
Requested == [i \in 1..Len(sessions) |-> sessions[i].seq]

\* the sequence numbers of the objects written, in file order
OutputSequences == [i \in 1..Len(output) |-> output[i].packetSequence]

(* ---------------------------------------------------------------------- *)
(* C1                                                                      *)
(* ---------------------------------------------------------------------- *)
\* the packets of the consecutive 17-byte windows of a byte string
DecodeWindows(bytes) ==
    [k \in 1..(Len(bytes) \div PACKET_SIZE) |-> parse_packet(bytes, PACKET_SIZE * (k - 1))]

\* a map after storing the packets of a list, in order, under their sequences
RECURSIVE InsertAll(_, _)
InsertAll(store, packets) ==
    IF packets = << >> THEN store
    ELSE InsertAll(MapPut(store, Head(packets).sequence, Head(packets)), Tail(packets))

\* C1: however the stream was split into chunks, the packets parsed so far, in
\* the order parsed, are the packets of the consecutive 17-byte windows of the
\* concatenation of the chunks, and the store is what storing them in that
\* order gives.
C1_ChunkingIndependent ==
    StreamPhase =>
        /\ emitted = DecodeWindows(delivered)
        /\ received_packets = InsertAll(EmptyMap, DecodeWindows(delivered))

\* two packets parsed, the chunks having ended in the middle of a third
C1_Witness ==
    /\ pc = "s_recv"
    /\ Len(emitted) >= 2
    /\ receive_buffer # << >>
    /\ Len(delivered) % PACKET_SIZE # 0

(* ---------------------------------------------------------------------- *)
(* C2                                                                      *)
(* ---------------------------------------------------------------------- *)
\* every missing sequence was asked for and came back under its own number
AllRecovered ==
    /\ Len(sessions) = Len(missing_sequences)
    /\ \A i \in DOMAIN sessions :
          sessions[i].outcome = "complete" /\ sessions[i].decoded = sessions[i].seq

\* C2: when streaming ended with greatest key max and every resend iteration
\* stored a packet carrying the sequence asked for, the final store holds every
\* integer of 1..max and the output lists them; streaming 1,2,4 and recovering
\* 3 writes exactly the sequences 1,2,3,4 in that order.
C2_EndToEndComplete ==
    (RecoveryOver /\ AllRecovered) =>
        /\ \A i \in 1..GreatestOrZero(DOMAIN stream_store) : i \in DOMAIN received_packets
        /\ OutputWritten =>
              /\ \A i \in 1..GreatestOrZero(DOMAIN stream_store) :
                    \E j \in DOMAIN output : output[j].packetSequence = i
              /\ DOMAIN stream_store = {1, 2, 4} => OutputSequences = << 1, 2, 3, 4 >>

\* streamed 1,2,4, recovered 3, output written
C2_Witness ==
    /\ OutputWritten
    /\ AllRecovered
    /\ DOMAIN stream_store = {1, 2, 4}
    /\ Requested = << 3 >>
    /\ OutputSequences = << 1, 2, 3, 4 >>

(* ---------------------------------------------------------------------- *)
(* C3                                                                      *)
(* ---------------------------------------------------------------------- *)
\* C3: after stage 4, max_sequence is the greatest key of the store as streaming
\* left it (0 for an empty store) and missing_sequences lists exactly the
\* integers of 1..max_sequence that are not keys, strictly ascending; no
\* element is 0 or negative.
C3_GapExact ==
    GapDone =>
        /\ max_sequence = GreatestOrZero(DOMAIN stream_store)
        /\ {missing_sequences[i] : i \in DOMAIN missing_sequences}
              = {i \in 1..max_sequence : i \notin DOMAIN stream_store}
        /\ \A i, j \in DOMAIN missing_sequences :
              i < j => missing_sequences[i] < missing_sequences[j]
        /\ \A i \in DOMAIN missing_sequences : missing_sequences[i] >= 1

\* stage 4 has run on a store with a negative key, a gap and the key 4
C3_Witness ==
    /\ pc = "r_loop"
    /\ idx = 0
    /\ DOMAIN stream_store = {-1, 1, 4}
    /\ missing_sequences = << 2, 3 >>

(* ---------------------------------------------------------------------- *)
(* C4                                                                      *)
(* ---------------------------------------------------------------------- *)
\* C4: from the moment an iteration is given up because connect or send
\* failed, or because recv timed out, failed or saw the peer close before 17
\* bytes were there, until the next iteration begins, the store is the store
\* the iteration began with.
C4_AbandonedLeavesStore ==
    last_exit \in {"connect", "send", "recv"} =>
        received_packets = store_before

\* an iteration whose recv failed after part of the packet had been read, past
\* its store step
C4_Witness ==
    /\ pc = "r_cleanup"
    /\ last_exit = "recv"
    /\ \E i \in DOMAIN resent_packet_data : resent_packet_data[i] # 0
    /\ received_packets = store_before
    /\ DOMAIN received_packets # {}

(* ---------------------------------------------------------------------- *)
(* C5                                                                      *)
(* ---------------------------------------------------------------------- *)
\* C5: at most one socket is open, and a socket is created only when every
\* socket created before it has been closed (the streaming connection before
\* the first resend connection, each resend connection before the next).
C5_NoOverlap ==
    /\ Cardinality(OpenSocks) <= 1
    /\ \A i \in DOMAIN socks : i < Len(socks) => socks[i].state = "closed"

\* the second resend connection is open
C5_Witness ==
    /\ Len(socks) = 3
    /\ socks[3].state = "connected"
    /\ pc = "r_recv"

(* ---------------------------------------------------------------------- *)
(* C6                                                                      *)
(* ---------------------------------------------------------------------- *)
\* C6: every resend socket other than the one of the iteration under way has
\* been closed by exactly one close() call, so each is closed once before the
\* next iteration starts or the output is written; the socket of the iteration
\* under way has not been closed yet.
C6_ClosedExactlyOnce ==
    \A i \in 2..Len(socks) :
        IF InSession /\ i = resend_socket
        THEN socks[i].closes = 0 /\ socks[i].state # "closed"
        ELSE socks[i].closes = 1 /\ socks[i].state = "closed"

\* output written after three iterations that left by different paths
C6_Witness ==
    /\ OutputWritten
    /\ Len(socks) = 4
    /\ \A i \in 2..4 : socks[i].closes = 1
    /\ sessions[1].outcome = "abandoned"
    /\ sessions[2].outcome = "complete"
    /\ last_exit = "exception"

(* ---------------------------------------------------------------------- *)
(* C7                                                                      *)
(* ---------------------------------------------------------------------- *)
\* C7 as stated: once the resend loop is over, no sequence whose iteration was
\* abandoned is a key of the store or a sequence of the output.
C7_AbandonedStaysAbsent ==
    RecoveryOver =>
        \A i \in DOMAIN sessions :
            sessions[i].outcome = "abandoned" =>
                /\ sessions[i].seq \notin DOMAIN received_packets
                /\ OutputWritten =>
                      \A j \in DOMAIN output : output[j].packetSequence # sessions[i].seq

\* C7 as amended: a sequence whose iteration was abandoned is asked for by no
\* other iteration, and once the resend loop is over it is a key of the store,
\* or a sequence of the output, only if another iteration stored a packet whose
\* decoded sequence is that number.
C7_AbandonedAbsentUnlessMismatch ==
    RecoveryOver =>
        \A i \in DOMAIN sessions :
            sessions[i].outcome = "abandoned" =>
                /\ \A j \in DOMAIN sessions : j # i => sessions[j].seq # sessions[i].seq
                /\ (\/ sessions[i].seq \in DOMAIN received_packets
                    \/ \E k \in DOMAIN output : output[k].packetSequence = sessions[i].seq)
                       => \E j \in DOMAIN sessions :
                              /\ j # i
                              /\ sessions[j].outcome = "complete"
                              /\ sessions[j].decoded = sessions[i].seq

\* output written; an abandoned sequence is absent though a later iteration
\* stored a packet under a number other than the one it asked for
C7_Witness ==
    /\ OutputWritten
    /\ \E i, j \in DOMAIN sessions :
          /\ i < j
          /\ sessions[i].outcome = "abandoned"
          /\ sessions[i].seq \notin DOMAIN received_packets
          /\ sessions[j].outcome = "complete"
          /\ sessions[j].decoded # sessions[j].seq

(* ---------------------------------------------------------------------- *)
(* C8                                                                      *)
(* ---------------------------------------------------------------------- *)
\* the iteration just finished stored a packet whose sequence is not the one asked for
MismatchStored ==
    /\ last_exit = "stored"
    /\ sessions # << >>
    /\ Last(sessions).decoded # Last(sessions).seq

\* the store differs from the store the iteration began with at key d at most,
\* and holds the packet just parsed there
StoredUnderOnly(d) ==
    /\ d \in DOMAIN received_packets
    /\ received_packets[d].sequence = d
    /\ pc = "r_cleanup" => received_packets[d] = parse_packet(resent_packet_data, 0)
    /\ \A k \in ((DOMAIN received_packets) \cup (DOMAIN store_before)) \ {d} :
          /\ k \in DOMAIN received_packets
          /\ k \in DOMAIN store_before
          /\ received_packets[k] = store_before[k]

\* C8 as stated: after a mismatch the store differs from the store before the
\* iteration at the decoded key only, and the requested sequence is not a key.
C8_MismatchRequestedAbsent ==
    MismatchStored =>
        /\ StoredUnderOnly(Last(sessions).decoded)
        /\ Last(sessions).seq \notin DOMAIN received_packets

\* C8 as amended: after a mismatch the store differs from the store before the
\* iteration at the decoded key only; the requested sequence is a key after the
\* iteration exactly if it was one before, which happens only when an earlier
\* iteration stored a packet carrying that number.
C8_MismatchFiledUnderDecoded ==
    MismatchStored =>
        /\ StoredUnderOnly(Last(sessions).decoded)
        /\ Last(sessions).seq \in DOMAIN received_packets
              <=> Last(sessions).seq \in DOMAIN store_before
        /\ Last(sessions).seq \in DOMAIN received_packets =>
              \E j \in 1..(Len(sessions) - 1) :
                  /\ sessions[j].outcome = "complete"
                  /\ sessions[j].decoded = Last(sessions).seq

\* a mismatched packet has overwritten an existing key; the requested one is absent
C8_Witness ==
    /\ pc = "r_loop"
    /\ MismatchStored
    /\ Last(sessions).decoded \in DOMAIN store_before
    /\ received_packets # store_before
    /\ Last(sessions).seq \notin DOMAIN received_packets

(* ---------------------------------------------------------------------- *)
(* C9                                                                      *)
(* ---------------------------------------------------------------------- *)
\* C9: the sequences asked for so far are strictly ascending in the order
\* asked, so none is asked for twice.
C9_AscendingRequests ==
    \A i, j \in DOMAIN sessions : i < j => sessions[i].seq < sessions[j].seq

\* the third iteration has begun
C9_Witness ==
    /\ pc = "r_socket"
    /\ Requested = << 1, 2, 3 >>

(* ---------------------------------------------------------------------- *)
(* C10                                                                     *)
(* ---------------------------------------------------------------------- *)
\* C10: main() does not return from inside the resend loop: when the output
\* stage is reached, or main() has returned after some iteration, an iteration
\* has been run for every element of missing_sequences, in order, whatever
\* became of each; and when the output was written main() returned 0.
C10_FailureIsLocal ==
    /\ (pc = "output" \/ (pc = "returned" /\ sessions # << >>)) =>
          Requested = missing_sequences
    /\ (pc = "returned" /\ sessions # << >>) => returned_at \in {438, 448, 452}
    /\ OutputWritten => exit_status = 0

\* output written and 0 returned although the first of three iterations was abandoned
C10_Witness ==
    /\ OutputWritten
    /\ exit_status = 0
    /\ Len(sessions) = 3
    /\ sessions[1].outcome = "abandoned"
    /\ sessions[3].outcome = "complete"

(* ---------------------------------------------------------------------- *)
(* C11                                                                     *)
(* ---------------------------------------------------------------------- *)
\* no resend iteration has stored a packet
NothingRecovered == \A i \in DOMAIN sessions : sessions[i].outcome # "complete"

\* C11: when the receive loop was ended by the peer closing, by the receive
\* timeout or by another recv error, main() has not returned because of it and
\* stands before the gap analysis (only an allocation failure there can still
\* end it), the store holds exactly the packets of the whole 17-byte windows
\* of the bytes received, and the bytes left over are fewer than 17; as long
\* as no resend iteration has stored a packet, the store is still that one, so
\* the bytes left over never became a record.
C11_StreamEndKeepsData ==
    /\ stream_end # "none" =>
          /\ pc = "gap" \/ (pc = "returned" /\ returned_at = 448)
          /\ pc = "gap" => exit_status = -1
          /\ received_packets = InsertAll(EmptyMap, DecodeWindows(delivered))
          /\ stream_store = received_packets
          /\ Len(receive_buffer) < PACKET_SIZE
          /\ Len(delivered) = PACKET_SIZE * Len(emitted) + Len(receive_buffer)
    /\ (GapDone /\ NothingRecovered) => received_packets = stream_store

\* the receive timeout struck in the middle of the third packet: two records
\* are kept and nine bytes are left over
C11_Witness ==
    /\ pc = "gap"
    /\ stream_end = "timeout"
    /\ Len(receive_buffer) = 9
    /\ Cardinality(DOMAIN received_packets) = 2

(* ---------------------------------------------------------------------- *)
(* C12                                                                     *)
(* ---------------------------------------------------------------------- *)
\* C12 as stated: main() returns a status other than 0 only when the initial
\* socket could not be created or connected, or output.json could not be
\* opened; a failed send of the 'stream all' request does not.
C12_NonZeroOnlyConnectOrOutput ==
    (pc = "returned" /\ exit_status # 0) => returned_at \in {98, 132, 438}

\* C12: main() returns 0 or 1, and it returns 1 only when socket() failed
\* (nothing created), when connect() failed or the send of the 'stream all'
\* request returned -1 or 0 (one socket, closed, nothing sent on it), when
\* output.json could not be opened after every iteration was run, or when an
\* exception reached the outer handler; while the receive loop, the gap
\* analysis and the resend iterations run, no status has been returned.
C12_NonZeroOnlySetupSendOutput ==
    /\ pc = "returned" => exit_status \in {0, 1}
    /\ pc # "returned" => exit_status = -1
    /\ (pc = "returned" /\ exit_status # 0) =>
          \/ returned_at = 98 /\ socks = << >>
          \/ /\ returned_at \in {132, 143, 147}
             /\ Len(socks) = 1
             /\ socks[1].sent = << >>
             /\ socks[1].state = "closed"
             /\ received_packets = EmptyMap
          \/ returned_at = 438 /\ Requested = missing_sequences /\ output = << >>
          \/ returned_at = 448
    /\ (pc = "returned" /\ returned_at \in {143, 147}) => exit_status = 1

\* the initial connection was made, send() returned 0 and main() returned 1
C12_Witness ==
    /\ pc = "returned"
    /\ returned_at = 147
    /\ exit_status = 1
    /\ socks[1].closes = 1

(* ---------------------------------------------------------------------- *)
(* C13                                                                     *)
(* ---------------------------------------------------------------------- *)
\* C13: when socket() or connect() failed for the initial connection, main()
\* has returned 1; no resend socket was created and no iteration run, nothing
\* was written, the store is empty, and the socket that was created (none when
\* socket() failed, one when connect() failed) was closed once, with nothing
\* sent on it.
C13_SetupFailureFatal ==
    returned_at \in {98, 132} =>
       /\ pc = "returned"
       /\ exit_status = 1
       /\ Len(socks) = (IF returned_at = 98 THEN 0 ELSE 1)
       /\ sessions = << >>
       /\ resend_socket = -1
       /\ output = << >>
       /\ received_packets = EmptyMap
       /\ \A fd \in DOMAIN socks :
             /\ socks[fd].state = "closed"
             /\ socks[fd].closes = 1
             /\ socks[fd].sent = << >>

\* connect() failed: the one socket is closed and main() returned 1
C13_Witness ==
    /\ pc = "returned"
    /\ returned_at = 132
    /\ exit_status = 1
    /\ Len(socks) = 1
    /\ socks[1].state = "closed"

(* ---------------------------------------------------------------------- *)
(* C14                                                                     *)
(* ---------------------------------------------------------------------- *)
\* C14: when the receive loop ended with an empty store, max_sequence is 0 and
\* missing_sequences is empty after the gap analysis, no resend iteration is
\* ever run and no socket but the initial one is ever created, the store
\* stays empty, and what is written is the empty array, with status 0.
C14_EmptyStreamNoRecovery ==
    (GapDone /\ stream_store = EmptyMap) =>
       /\ max_sequence = 0
       /\ missing_sequences = << >>
       /\ sessions = << >>
       /\ Len(socks) = 1
       /\ resend_socket = -1
       /\ received_packets = EmptyMap
       /\ OutputWritten => (output = << >> /\ exit_status = 0)

\* nothing was streamed and the empty array was written
C14_Witness ==
    /\ OutputWritten
    /\ stream_store = EmptyMap
    /\ output = << >>
    /\ socks[1].sent = << 1 >>

(* ---------------------------------------------------------------------- *)
(* C15                                                                     *)
(* ---------------------------------------------------------------------- *)
\* the index of the last packet of a list that carries the sequence k
LastIndexOf(packets, k) ==
    CHOOSE j \in DOMAIN packets :
        /\ packets[j].sequence = k
        /\ \A i \in DOMAIN packets : packets[i].sequence = k => i <= j

\* C15: while streaming, the store has one entry for each sequence parsed so
\* far, holding the packet parsed last with that sequence, however often and
\* with whatever payload the sequence came before; after a resend iteration
\* stored a packet, the store is the store the iteration began with, with the
\* entry of that packet's sequence added or replaced by it and nothing else
\* changed, and it is the same store when that very packet was there already.
C15_LastWriteWins ==
    /\ StreamPhase =>
          /\ DOMAIN received_packets = {emitted[j].sequence : j \in DOMAIN emitted}
          /\ \A k \in DOMAIN received_packets :
                received_packets[k] = emitted[LastIndexOf(emitted, k)]
    /\ (pc = "r_cleanup" /\ last_exit = "stored") =>
          LET p == parse_packet(resent_packet_data, 0)
          IN  /\ DOMAIN received_packets = (DOMAIN store_before) \cup {p.sequence}
              /\ received_packets[p.sequence] = p
              /\ \A k \in (DOMAIN store_before) \ {p.sequence} :
                    received_packets[k] = store_before[k]
              /\ (p.sequence \in DOMAIN store_before /\ store_before[p.sequence] = p) =>
                    received_packets = store_before

\* the stream carried one sequence twice with different payloads: one entry,
\* holding the second
C15_Witness ==
    /\ pc = "s_recv"
    /\ Len(emitted) = 2
    /\ emitted[1].sequence = emitted[2].sequence
    /\ emitted[1] # emitted[2]
    /\ Cardinality(DOMAIN received_packets) = 1
    /\ received_packets[emitted[2].sequence] = emitted[2]

\* a resend iteration stored the very packet an earlier one had stored
C15_SameRecordTwice ==
    /\ pc = "r_cleanup"
    /\ last_exit = "stored"
    /\ Last(sessions).decoded \in DOMAIN store_before
    /\ store_before[Last(sessions).decoded] = parse_packet(resent_packet_data, 0)
    /\ received_packets = store_before

\* a resend iteration replaced a packet the stream had delivered
C15_RecoveryOverwrites ==
    /\ pc = "r_cleanup"
    /\ last_exit = "stored"
    /\ Last(sessions).decoded \in DOMAIN stream_store
    /\ received_packets[Last(sessions).decoded] # stream_store[Last(sessions).decoded]

(* ---------------------------------------------------------------------- *)
(* C16                                                                     *)
(* ---------------------------------------------------------------------- *)
\* the bytes b that stand for the sequence seq in a resend request
RequestByteOf(seq, b) ==
    /\ b \in 0..255
    /\ (seq - b) % 256 = 0
    /\ seq \in 0..255 => b = seq

\* C16: in a resend iteration that went on after its send, exactly two bytes
\* were sent: 2, and the low eight bits of the sequence asked for, which is
\* the sequence itself when it lies in 0..255; nothing else is ever sent on a
\* resend socket but a prefix of such a request; and an iteration for a
\* sequence above 255 goes through the same steps with its truncated byte.
C16_RequestTwoBytes ==
    /\ pc \in {"r_alloc", "r_recv", "r_check", "r_cleanup"} =>
          /\ resend_socket # -1
          /\ Len(socks[resend_socket].sent) = 2
          /\ socks[resend_socket].sent[1] = 2
          /\ RequestByteOf(seq_to_resend, socks[resend_socket].sent[2])
    /\ \A fd \in DOMAIN socks :
          fd # 1 =>
             /\ Len(socks[fd].sent) <= 2
             /\ Len(socks[fd].sent) >= 1 => socks[fd].sent[1] = 2
             /\ Len(socks[fd].sent) = 2 => socks[fd].sent[2] \in 0..255

\* the iteration for 256 sent the bytes 2, 0 and stored the packet it was
\* answered with, after the iteration for 255 had sent 2, 255
C16_Witness ==
    /\ pc = "r_cleanup"
    /\ seq_to_resend = 256
    /\ socks[resend_socket].sent = << 2, 0 >>
    /\ last_exit = "stored"
    /\ \E fd \in DOMAIN socks : socks[fd].sent = << 2, 255 >>

(* ---------------------------------------------------------------------- *)
(* C17                                                                     *)
(* ---------------------------------------------------------------------- *)
\* C17: in the array written the sequence numbers are strictly ascending, so
\* none comes twice; they are exactly the keys of the store, each object
\* being that of the store's packet with that sequence; this in whatever order
\* the stream delivered its packets and whatever each resend iteration did.
C17_OutputAscending ==
    OutputWritten =>
       /\ \A i, j \in DOMAIN output :
             i < j => output[i].packetSequence < output[j].packetSequence
       /\ {output[i].packetSequence : i \in DOMAIN output} = DOMAIN received_packets
       /\ Len(output) = Cardinality(DOMAIN received_packets)
       /\ \A i \in DOMAIN output :
             output[i] = JsonObject(received_packets[output[i].packetSequence])

\* the stream delivered -1, 1 and 4 in some order, 2 and 3 were stored by
\* resend iterations after them, and the array lists -1, 1, 2, 3, 4
C17_Witness ==
    /\ OutputWritten
    /\ DOMAIN stream_store = {-1, 1, 4}
    /\ OutputSequences = << -1, 1, 2, 3, 4 >>

(* ---------------------------------------------------------------------- *)
(* C18                                                                     *)
(* ---------------------------------------------------------------------- *)
\* the iteration under way stored a packet
SessionComplete == sessions # << >> /\ Last(sessions).outcome = "complete"

\* C18 as stated: at the end of a resend iteration, a packet was stored if and
\* only if the bytes read added up to 17 before a recv failed.
C18_CompleteIffSeventeen ==
    pc = "r_cleanup" => (SessionComplete <=> total_bytes_received = PACKET_SIZE)

\* C18: at the end of a resend iteration, a packet was stored if and only if
\* the bytes read added up to 17 before a recv failed and storing it did not
\* throw; while bytes are read, those read so far followed by those still to
\* come are the 17 bytes the server answered with, so that the buffer of 17
\* is that answer however the reads split it; the packet stored is the decode
\* of that buffer; and an iteration that stored nothing left the store as it
\* was.
C18_CompleteIffSeventeenStored ==
    /\ pc = "r_cleanup" =>
          /\ SessionComplete <=>
                (total_bytes_received = PACKET_SIZE /\ last_exit # "exception")
          /\ SessionComplete =>
                /\ last_exit = "stored"
                /\ Last(sessions).decoded = parse_packet(resent_packet_data, 0).sequence
                /\ received_packets[Last(sessions).decoded] =
                      parse_packet(resent_packet_data, 0)
          /\ ~SessionComplete => received_packets = store_before
    /\ (pc = "r_recv" \/ (pc \in {"r_check", "r_cleanup"} /\ total_bytes_received # 0)) =>
          /\ total_bytes_received + Len(wire) = PACKET_SIZE + Len(ResendTrailer)
          /\ Take(resent_packet_data, total_bytes_received)
                \o Take(wire, PACKET_SIZE - total_bytes_received)
                \in ResendAnswers(seq_to_resend)
    /\ (pc = "r_recv" /\ total_bytes_received # 0) => short_read

\* the 17 bytes came in more than one read and the packet they make was stored
C18_Witness ==
    /\ pc = "r_cleanup"
    /\ SessionComplete
    /\ short_read
    /\ total_bytes_received = PACKET_SIZE
    /\ received_packets[Last(sessions).decoded] = parse_packet(resent_packet_data, 0)

(* ---------------------------------------------------------------------- *)
(* C19                                                                     *)
(* ---------------------------------------------------------------------- *)
\* the integers of 1..greatest key that are no key of a store
GapsOf(store) ==
    {k \in 1..GreatestOrZero(DOMAIN store) : k \notin DOMAIN store}

\* C19: from the gap analysis on, the sequences asked for so far are the first
\* idx elements of missing_sequences, one iteration each, and
\* missing_sequences lists the gaps of the store as it was when the receive
\* loop ended; when the loop is over the sequences asked for are exactly
\* those gaps, whatever the iterations have stored meanwhile: one that an
\* earlier iteration filed a packet under is asked for all the same, and a
\* gap that only the store of now has, below a packet filed above the
\* streamed maximum, is not.
C19_RequestsFixedAtGap ==
    GapDone =>
       /\ Len(sessions) = idx
       /\ Requested = Take(missing_sequences, idx)
       /\ {missing_sequences[i] : i \in DOMAIN missing_sequences} = GapsOf(stream_store)
       /\ max_sequence = GreatestOrZero(DOMAIN stream_store)
       /\ RecoveryOver =>
             {Requested[i] : i \in DOMAIN Requested} = GapsOf(stream_store)

\* the loop is over; an iteration filed its packet under a sequence that a
\* later iteration asked for, another filed one two above the streamed
\* maximum, and the gap below that one was never asked for
C19_Witness ==
    /\ RecoveryOver
    /\ \E i, j \in DOMAIN sessions :
          /\ i < j
          /\ sessions[i].outcome = "complete"
          /\ sessions[i].decoded = sessions[j].seq
    /\ \E i \in DOMAIN sessions :
          /\ sessions[i].outcome = "complete"
          /\ sessions[i].decoded = max_sequence + 2
    /\ max_sequence + 2 \in DOMAIN received_packets
    /\ max_sequence + 1 \in GapsOf(received_packets)
    /\ \A i \in DOMAIN sessions : sessions[i].seq # max_sequence + 1

(* ---------------------------------------------------------------------- *)
(* C20                                                                     *)
(* ---------------------------------------------------------------------- *)
\* C20: between two recv calls of the receive loop, and when the loop has
\* ended, receive_buffer holds fewer than 17 bytes: the bytes received that
\* follow the last whole 17-byte window, as many as the number of bytes
\* received leaves when divided by 17.
C20_ResidualBuffer ==
    StreamPhase =>
       /\ Len(receive_buffer) < PACKET_SIZE
       /\ Len(receive_buffer) = Len(delivered) % PACKET_SIZE
       /\ receive_buffer =
             Drop(delivered, PACKET_SIZE * (Len(delivered) \div PACKET_SIZE))

\* 33 bytes were received in chunks that cut across the packets: one window
\* was taken and 16 bytes remain
C20_Witness ==
    /\ pc = "s_recv"
    /\ Len(delivered) = 33
    /\ Len(receive_buffer) = 16
    /\ Len(emitted) = 1
    /\ wire # << >>

(* ---------------------------------------------------------------------- *)
(* C21                                                                     *)
(* ---------------------------------------------------------------------- *)
\* v is the 32-bit two's-complement reading of the bytes b0 b1 b2 b3, most
\* significant first: its four bytes are those, it is negative exactly when
\* b0 >= 0x80, and below the top byte it is b1*2^16 + b2*2^8 + b3
SignedBigEndian(v, bytes) ==
    /\ v >= -2147483647 - 1
    /\ v <= 2147483647
    /\ BE32(v) = bytes
    /\ (v < 0) <=> (bytes[1] >= 128)
    /\ v % 16777216 = bytes[2] * 65536 + bytes[3] * 256 + bytes[4]
    /\ v \div 16777216 = (IF bytes[1] >= 128 THEN bytes[1] - 256 ELSE bytes[1])

\* the record is the decode of the window w
DecodeOf(record, w) ==
    /\ record.symbol = SubSeq(w, 1, 4)
    /\ record.buysell_indicator = w[5]
    /\ SignedBigEndian(record.quantity, SubSeq(w, 6, 9))
    /\ SignedBigEndian(record.price, SubSeq(w, 10, 13))
    /\ SignedBigEndian(record.sequence, SubSeq(w, 14, 17))

\* C21: for every window of 17 bytes parse_packet gives a record whose symbol
\* is bytes 0-3 and whose side is byte 4 as they are, and whose quantity,
\* price and sequence are the signed big-endian readings of bytes 5-8, 9-12
\* and 13-16; there is no window it fails on, and the record a resend
\* iteration stored is that decode, filed under its sequence.
C21_DecoderBigEndianSigned ==
    /\ (pc \in {"r_check", "r_cleanup"} /\ total_bytes_received = PACKET_SIZE) =>
          DecodeOf(parse_packet(resent_packet_data, 0), resent_packet_data)
    /\ (pc = "r_cleanup" /\ last_exit = "stored") =>
          \E k \in DOMAIN received_packets :
             /\ DecodeOf(received_packets[k], resent_packet_data)
             /\ received_packets[k].sequence = k

\* the window's sequence bytes are 80 00 00 00 and its price bytes FF FF FF
\* FF or 7F FF FF FF: the record is stored under -2^31, or the price is -1
\* or 2^31 - 1
C21_Witness ==
    /\ pc = "r_cleanup"
    /\ last_exit = "stored"
    /\ \/ /\ SubSeq(resent_packet_data, 14, 17) = << 128, 0, 0, 0 >>
          /\ (-2147483647 - 1) \in DOMAIN received_packets
       \/ /\ SubSeq(resent_packet_data, 10, 13) = << 255, 255, 255, 255 >>
          /\ \E k \in DOMAIN received_packets : received_packets[k].price = -1

(* ---------------------------------------------------------------------- *)
(* C22                                                                     *)
(* ---------------------------------------------------------------------- *)
\* the integers of lo..hi that are no key of the store, ascending
AbsentBetween(lo, hi, store) ==
    KeysAscending({k \in lo..hi : k \notin DOMAIN store})

\* C22: in the loop of stage 4 the counter stays within 1..max_sequence + 1,
\* also when max_sequence is the greatest value of its type, and
\* missing_sequences holds the absent integers below the counter, each once;
\* when the loop has been left it holds the absent integers of
\* 1..max_sequence, each once.
C22_ScanCounterInRange ==
    /\ pc = "scan" =>
          /\ scan_i >= 1
          /\ scan_i - 1 <= max_sequence
          /\ missing_sequences = AbsentBetween(1, scan_i - 1, received_packets)
    /\ pc = "r_loop" =>
          missing_sequences = AbsentBetween(1, max_sequence, received_packets)

(* ---------------------------------------------------------------------- *)
(* C23                                                                     *)
(* ---------------------------------------------------------------------- *)
\* C23: when every call returns and the server sends finitely many bytes,
\* main() returns in the end, with status 0 or 1.  main() is then in none of
\* its loops: the receive loop of stage 3, the receive loop of each resend
\* iteration and the resend loop, where they were entered, have been left.
C23_Terminates == <>(pc = "returned" /\ exit_status \in {0, 1})

\* main() returned 0 after three resend iterations, the last of which ended
\* with a failed recv after some bytes had been read
C23_Witness ==
    /\ OutputWritten
    /\ exit_status = 0
    /\ Len(sessions) = 3
    /\ last_exit = "recv"
    /\ Last(sessions).outcome = "abandoned"

(* ---------------------------------------------------------------------- *)
(* C24                                                                     *)
(* ---------------------------------------------------------------------- *)
\* the bytes taken off the resend connection of the iteration under way
BytesRead == PACKET_SIZE + Len(ResendTrailer) - Len(wire)

\* C24: on a resend socket nothing but one request of two bytes, or a part
\* of it, is ever sent, and there is at most one resend socket per iteration;
\* total_bytes_received stays within 0..17; recv is called only while it is
\* below 17 and no recv of the iteration has failed, and what the calls so
\* far have taken off the connection is total_bytes_received bytes; after the
\* loop no more than 17 bytes have been taken, although the server had more
\* to give.
C24_OneRequestSeventeenBytes ==
    /\ \A fd \in DOMAIN socks :
          fd # 1 => \E seq \in 1..max_sequence, n \in 0..2 :
                       socks[fd].sent = Take(ResendPayload(seq), n)
    /\ Len(socks) <= 1 + Len(sessions)
    /\ total_bytes_received \in 0..PACKET_SIZE
    /\ pc = "r_recv" =>
          /\ total_bytes_received < PACKET_SIZE
          /\ last_exit = "none"
          /\ Last(sessions).outcome = "running"
          /\ BytesRead = total_bytes_received
          /\ Len(socks[resend_socket].sent) = 2
    /\ pc \in {"r_check", "r_cleanup"} =>
          /\ BytesRead <= PACKET_SIZE
          /\ total_bytes_received \in {0, PACKET_SIZE}
          /\ total_bytes_received = PACKET_SIZE => BytesRead = PACKET_SIZE

\* the 17 bytes were read in several calls, the last of which took less than
\* the server had sent: the two bytes after the packet were never read
C24_Witness ==
    /\ pc = "r_check"
    /\ total_bytes_received = PACKET_SIZE
    /\ short_read
    /\ wire = ResendTrailer
    /\ socks[resend_socket].sent = ResendPayload(seq_to_resend)

====
